---- MODULE Spec2Model ----
(***************************************************************************)
(* A model of the market-data Hub (src/src/processor/hub.rs), of its       *)
(* PriceAggregator (src/src/processor/aggregator.rs), of the producers     *)
(* (src/src/processor/channels.rs) and of the example client               *)
(* (src/src/bin/hub_example.rs); of the worker pool                        *)
(* HighThroughputProcessor (src/src/processor/aggregator.rs) with the      *)
(* producers of src/src/bin/perf_test.rs; and of MarketTick                *)
(* (src/src/models/market_tick.rs).                                        *)
(*                                                                         *)
(* A tokio mpsc channel is a bounded FIFO buffer with a receiving half     *)
(* that is alive or dropped: send suspends while the buffer is full and    *)
(* the receiver is alive, and fails once the receiver is dropped.  A       *)
(* Decimal price is its mantissa at scale 2 (an integer number of cents,   *)
(* as Decimal::new(cents, 2) builds it).  Vec indices are 1-based here and *)
(* 0-based in the source.                                                  *)
(***************************************************************************)
EXTENDS Integers, Sequences, FiniteSets, TLC

\* ------------------------------------------------------------------ bounds
\* Ticks the producers publish in one run.
MaxTicks == 2
\* Largest price, in cents.
MaxPrice == 2
\* Commands of any kind the clients send in one run.
MaxCmds == 3
\* Subscribe commands in one run (each creates one subscriber channel).
MaxChans == 2
\* The same three for the runs that check the statistics.
StatTicks == 3
StatCmds == 2
StatChans == 1
\* The same three for the runs in which the producers go away.
CloseTicks == 1
CloseCmds == 3
CloseChans == 1
\* The same three for the runs with three subscribers in one pass.
PassTicks == 1
PassCmds == 3
PassChans == 3
\* Ticks, commands, subscriptions and helper calls of the runs with shutdown
\* listeners and request helpers.
ApiTicks == 1
ApiCmds == 2
ApiChans == 1
ApiCalls == 3
\* Ticks of the runs of the example client, and the lengths of its three
\* loops (5, 1000 and 10 in hub_example.rs:55, 69, 93).
ScenTicks == 4
FirstLoop == 1
BothLoop == 1
VerifyLoop == 2
\* Capacity of the inbound tick channel (1000 in hub_example.rs:15).
DataCap == 2
\* Capacity of the command channel (100 in hub.rs:52).
CmdCap == 2
\* Capacity of one subscriber channel (1000 in hub.rs:152).
SubCap == 1
\* Shutdown listeners.
NListeners == 2
\* Fractional digits a Decimal quotient keeps beyond the cents
\* (a Decimal keeps up to 28 fractional digits).
DivDigits == 2
\* The pool: most workers (4 in perf_test.rs:138), most producers (10 in
\* perf_test.rs:124), ticks of one producer (10_000 in perf_test.rs:125) and
\* the capacity of the stream (1000 in perf_test.rs:94).
MaxWorkers == 3
FewWorkers == 1
MaxProducers == 2
PoolTicks == 2
StreamCap == 2
\* Largest volume of the tick under test (a u64 in the source).
MaxVolume == 1100

\* The volume a significant tick exceeds (market_tick.rs:27).
SignificantVolume == 1000

Symbols == {"VZW", "JNJ"}
Prices == 1..MaxPrice
Tick == [symbol : Symbols, price : Prices]

VARIABLES
    hubPc,          \* where MarketDataHub::start is: init, select, dist, done, dropped
    data,           \* the inbound tick channel's buffer (data_rx)
    cmdq,           \* the command channel's buffer (command_rx)
    subscribers,    \* MarketDataHub.subscribers: symbol -> Vec of senders (channel ids)
    symbol_prices,  \* PriceAggregator.symbol_prices: symbol -> Vec of prices
    cur,            \* process_market_tick's locals: tick, idx, failed_channels
    chan,           \* the subscriber channels, by id
    resp,           \* the oneshot response channels, by id
    processed,      \* history: the ticks the Hub took from data_rx, in order
    npub,           \* history: ticks published so far
    ncmd,           \* history: commands sent so far
    listeners,      \* the broadcast receivers subscribe_to_shutdown handed out
    shutdown_rx,    \* signals unread on the Hub's own broadcast receiver
    helper,         \* a caller inside subscribe_to_symbol or get_statistics
    cl,             \* the client task of hub_example.rs
    lim,            \* the run's bounds: ticks, commands, subscriptions
    data_tx,        \* the inbound tick channel's senders: open or all dropped
    poolPc,         \* where process_market_stream is: off, spawn, join, returned
    tx,             \* perf_test's first sender of the stream is still held
    producers,      \* perf_test's producers: ticks each has still to send
    stream,         \* the buffer of the stream the pool's workers share
    workers,        \* the pool's workers: position and the tick in hand
    rx_guard,       \* the worker that holds the lock of the stream, or 0
    agg_guard,      \* the worker that holds the lock of the aggregator, or 0
    aggregator,     \* the pool's PriceAggregator.symbol_prices
    sent,           \* history: the ticks sent on the stream, in order
    volume,         \* MarketTick.volume of the tick under test
    significant     \* <<what is_significant_volume returned for it>>, or <<>>

\* The worker pool and its producers.
poolVars == <<poolPc, tx, producers, stream, workers, rx_guard, agg_guard,
              aggregator, sent>>

\* The tick under test.
tickVars == <<volume, significant>>

\* What no step of the Hub, of its clients or of its listeners changes.
fixedVars == <<lim, poolVars, tickVars>>

vars == <<hubPc, data, cmdq, subscribers, symbol_prices, cur, chan, resp,
          processed, npub, ncmd, listeners, shutdown_rx, helper, cl, lim,
          data_tx, poolVars, tickVars>>

\* What the generic clients and the producers leave alone.
apiVars == <<listeners, shutdown_rx, helper, cl, data_tx, fixedVars>>

EmptyMap == [x \in {} |-> <<>>]
NoListener == [state |-> "none", late |-> FALSE, pending |-> 0, seen |-> 0]
NoHelper == [pc |-> "idle", resp |-> 0, ncall |-> 0]
NoClient == [pc |-> "off", i |-> 0, vzw |-> 0, jnj |-> 0, resp |-> 0, errors |-> 0]
NoTick == [symbol |-> "", price |-> 0]
NoCur == [tick |-> NoTick, idx |-> 0, failed |-> <<>>]

\* ----------------------------------------------------------- pure helpers
RECURSIVE SumSeq(_)
SumSeq(s) == IF s = <<>> THEN 0 ELSE Head(s) + SumSeq(Tail(s))

Range(s) == {s[i] : i \in DOMAIN s}

MinOf(S) == CHOOSE x \in S : \A y \in S : x <= y
MaxOf(S) == CHOOSE x \in S : \A y \in S : y <= x

RECURSIVE Pow10(_)
Pow10(n) == IF n = 0 THEN 1 ELSE 10 * Pow10(n - 1)

\* Decimal / Decimal for a non-negative dividend and a positive divisor: the
\* quotient's mantissa at DivDigits more fractional digits than the dividend,
\* rounded to nearest, a tie to the even mantissa.
DecimalDiv(a, b) ==
    LET n == a * Pow10(DivDigits)
        q == n \div b
        r == n % b
    IN  IF 2 * r > b \/ (2 * r = b /\ q % 2 = 1) THEN q + 1 ELSE q

\* Vec::remove(idx): the list without its idx-th entry.
VecRemove(list, idx) ==
    SubSeq(list, 1, idx - 1) \o SubSeq(list, idx + 1, Len(list))

\* A remove that keeps the key and drops every other one.
MapRemoveOthers(m, k) == [x \in (DOMAIN m) \cap {k} |-> m[x]]

\* HashMap::remove(key): the map without the key.
MapRemove(m, k) == [x \in (DOMAIN m) \ {k} |-> m[x]]

\* HashMap::entry(key).or_default().push(v)
MapPush(m, k, v) ==
    [x \in (DOMAIN m) \cup {k} |->
        IF x = k THEN (IF k \in DOMAIN m THEN Append(m[k], v) ELSE <<v>>)
        ELSE m[x]]

\* ------------------------------------------------------------- Aggregator
\* An add_tick that inserts the price as the symbol's whole history.
add_tick_overwrites(prices, tick) ==
    [x \in (DOMAIN prices) \cup {tick.symbol} |->
        IF x = tick.symbol THEN <<tick.price>> ELSE prices[x]]

\* An add_tick that inserts the price at the front of the history.
add_tick_prepends(prices, tick) ==
    [x \in (DOMAIN prices) \cup {tick.symbol} |->
        IF x = tick.symbol
        THEN (IF x \in DOMAIN prices THEN <<tick.price>> \o prices[x]
              ELSE <<tick.price>>)
        ELSE prices[x]]

\* self.symbol_prices.entry(tick.symbol).or_default().push(tick.price)
add_tick(prices, tick) == MapPush(prices, tick.symbol, tick.price)

\* get_statistics(symbol) as the set holding the PriceStats, or no element
\* for None.
get_statistics(prices, symbol) ==
    IF symbol \notin DOMAIN prices THEN {}
    ELSE IF prices[symbol] = <<>> THEN {}
    ELSE LET ps == prices[symbol]
             count == Len(ps)
         IN  {[symbol |-> symbol,
               count |-> count,
               min_price |-> MinOf(Range(ps)),
               max_price |-> MaxOf(Range(ps)),
               avg_price |-> DecimalDiv(SumSeq(ps), count)]}

\* -------------------------------------------------------------------- Init
\* The state MarketDataHub::new leaves, before start() is called.
Constructed ==
    /\ hubPc = "init"
    /\ data = <<>>
    /\ cmdq = <<>>
    /\ subscribers = EmptyMap
    /\ symbol_prices = EmptyMap
    /\ cur = NoCur
    /\ chan = <<>>
    /\ resp = <<>>
    /\ processed = <<>>
    /\ npub = 0
    /\ ncmd = 0
    /\ listeners = [l \in 1..NListeners |-> NoListener]
    /\ shutdown_rx = 0
    /\ helper = NoHelper
    /\ data_tx = [open |-> TRUE, resps |-> 0]

\* No pool is running.
NoPool ==
    /\ poolPc = [pc |-> "off", i |-> 0]
    /\ tx = FALSE
    /\ producers = <<>>
    /\ stream = <<>>
    /\ workers = <<>>
    /\ rx_guard = 0
    /\ agg_guard = 0
    /\ aggregator = EmptyMap
    /\ sent = <<>>

\* No tick is under test.
NoVolume ==
    /\ volume = 0
    /\ significant = <<>>

\* The Hub with producers and clients that send any command at any time.
Init ==
    /\ Constructed
    /\ NoPool
    /\ NoVolume
    /\ cl = NoClient
    /\ lim = [ticks |-> MaxTicks, cmds |-> MaxCmds, chans |-> MaxChans, calls |-> 0]

\* The same Hub and clients, with more ticks and fewer commands.
StatsInit ==
    /\ Constructed
    /\ NoPool
    /\ NoVolume
    /\ cl = NoClient
    /\ lim = [ticks |-> StatTicks, cmds |-> StatCmds, chans |-> StatChans,
              calls |-> 0]

\* The same Hub and clients, with shutdown listeners and with callers of the
\* request helpers subscribe_to_symbol and get_statistics.
ApiInit ==
    /\ Constructed
    /\ NoPool
    /\ NoVolume
    /\ cl = NoClient
    /\ lim = [ticks |-> ApiTicks, cmds |-> ApiCmds, chans |-> ApiChans,
              calls |-> ApiCalls]

\* The Hub with the producers and the one client task of hub_example.rs.
ScenarioInit ==
    /\ Constructed
    /\ NoPool
    /\ NoVolume
    /\ cl = [NoClient EXCEPT !.pc = "subscribe_vzw"]
    /\ lim = [ticks |-> ScenTicks, cmds |-> 0, chans |-> 0, calls |-> 0]

\* ------------------------------------------------------------ environment
\* The producers and the clients are spawned after the Hub's task
\* (hub_example.rs:24-48), and they can send while the Hub owns the
\* receiving ends.
Started == hubPc \notin {"init", "dropped"}

\* A producer's tx.send(tick).await: suspends while the buffer is full, and
\* fails once the Hub (the owner of data_rx) is dropped.
Publish(sym, price) ==
    /\ Started
    /\ data_tx.open
    /\ npub < lim.ticks
    /\ Len(data) < DataCap
    /\ data' = Append(data, [symbol |-> sym, price |-> price])
    /\ npub' = npub + 1
    /\ UNCHANGED <<hubPc, cmdq, subscribers, symbol_prices, cur, chan, resp,
                   processed, ncmd>>
    /\ UNCHANGED apiVars

NewResp(kind) ==
    [kind |-> kind, state |-> "waiting", chan |-> 0, stats |-> {}, at |-> 0,
     active |-> {}]

CanSend ==
    /\ Started
    /\ ncmd < lim.cmds
    /\ Len(cmdq) < CmdCap

SubscribesSent == Cardinality({r \in DOMAIN resp : resp[r].kind = "sub"})

\* command_sender.send(MarketCommand::Subscribe(symbol, tx)).await
SendSubscribe(sym) ==
    /\ CanSend
    /\ SubscribesSent < lim.chans
    /\ resp' = Append(resp, NewResp("sub"))
    /\ cmdq' = Append(cmdq, [kind |-> "Subscribe", symbol |-> sym,
                             resp |-> Len(resp) + 1])
    /\ ncmd' = ncmd + 1
    /\ UNCHANGED <<hubPc, data, subscribers, symbol_prices, cur, chan,
                   processed, npub>>
    /\ UNCHANGED apiVars

\* command_sender.send(MarketCommand::Unsubscribe(symbol)).await
SendUnsubscribe(sym) ==
    /\ CanSend
    /\ cmdq' = Append(cmdq, [kind |-> "Unsubscribe", symbol |-> sym, resp |-> 0])
    /\ ncmd' = ncmd + 1
    /\ UNCHANGED <<hubPc, data, subscribers, symbol_prices, cur, chan, resp,
                   processed, npub>>
    /\ UNCHANGED apiVars

\* command_sender.send(MarketCommand::GetStats(tx)).await
SendGetStats ==
    /\ CanSend
    /\ resp' = Append(resp, NewResp("stats"))
    /\ cmdq' = Append(cmdq, [kind |-> "GetStats", symbol |-> "",
                             resp |-> Len(resp) + 1])
    /\ ncmd' = ncmd + 1
    /\ UNCHANGED <<hubPc, data, subscribers, symbol_prices, cur, chan,
                   processed, npub>>
    /\ UNCHANGED apiVars

\* command_sender.send(MarketCommand::Shutdown).await
SendShutdown ==
    /\ CanSend
    /\ cmdq' = Append(cmdq, [kind |-> "Shutdown", symbol |-> "", resp |-> 0])
    /\ ncmd' = ncmd + 1
    /\ UNCHANGED <<hubPc, data, subscribers, symbol_prices, cur, chan, resp,
                   processed, npub>>
    /\ UNCHANGED apiVars

\* The caller drops the receiving half of a oneshot before the Hub replies
\* (a timeout, or a cancelled task).
DropResponse(r) ==
    /\ resp[r].state = "waiting"
    /\ resp' = [resp EXCEPT ![r].state = "dropped"]
    /\ UNCHANGED <<hubPc, data, cmdq, subscribers, symbol_prices, cur, chan,
                   processed, npub, ncmd>>
    /\ UNCHANGED apiVars

\* A client's receiver.recv().await that yields a tick.
ClientRecv(c) ==
    /\ chan[c].rx = "held"
    /\ chan[c].buf # <<>>
    /\ chan' = [chan EXCEPT ![c].got = Append(@, Head(chan[c].buf)),
                            ![c].buf = Tail(@)]
    /\ UNCHANGED <<hubPc, data, cmdq, subscribers, symbol_prices, cur, resp,
                   processed, npub, ncmd>>
    /\ UNCHANGED apiVars

\* A client drops its receiver: the channel closes, its buffer is discarded.
ClientDrop(c) ==
    /\ chan[c].rx = "held"
    /\ chan' = [chan EXCEPT ![c].rx = "dropped", ![c].buf = <<>>]
    /\ UNCHANGED <<hubPc, data, cmdq, subscribers, symbol_prices, cur, resp,
                   processed, npub, ncmd>>
    /\ UNCHANGED apiVars

\* -------------------------------------------------------------------- Hub
\* The Hub holds a sender of channel c.
Registered(c) == \E s \in DOMAIN subscribers : c \in Range(subscribers[s])

\* A call of subscribe_to_symbol or get_statistics is running: it borrows the
\* Hub (&self), so start(&mut self) cannot run and the Hub cannot be dropped.
HelperBorrows == helper.pc \in {"sending", "waiting"}

\* hub.start() is called: the event loop begins.
HubStart ==
    /\ hubPc = "init"
    /\ ~HelperBorrows
    /\ hubPc' = "select"
    /\ UNCHANGED <<data, cmdq, subscribers, symbol_prices, cur, chan, resp,
                   processed, npub, ncmd>>
    /\ UNCHANGED apiVars

\* A send that gives up on a full buffer and reports success (try_send with
\* its error ignored).
SubscriberSendLossy(ch, tick) ==
    IF ch.rx = "dropped" THEN [res |-> "closed", ch |-> [ch EXCEPT !.fails = @ + 1]]
    ELSE IF Len(ch.buf) >= SubCap THEN [res |-> "ok", ch |-> ch]
    ELSE [res |-> "ok", ch |-> [ch EXCEPT !.buf = Append(@, tick), !.nsent = @ + 1]]

\* subscriber.send(tick).await on one subscriber channel: "closed" once the
\* receiver is dropped, "wait" while the buffer is full (the send stays
\* suspended), "ok" with the tick appended otherwise.
SubscriberSend(ch, tick) ==
    IF ch.rx = "dropped" THEN [res |-> "closed", ch |-> [ch EXCEPT !.fails = @ + 1]]
    ELSE IF Len(ch.buf) >= SubCap THEN [res |-> "wait", ch |-> ch]
    ELSE [res |-> "ok", ch |-> [ch EXCEPT !.buf = Append(@, tick), !.nsent = @ + 1]]

\* An eviction that removes only the first failed entry of the pass.
EvictFirstOnly(list, failed) ==
    IF failed = <<>> THEN list ELSE VecRemove(list, failed[1])

\* An eviction that removes the failed indices in ascending order.
RECURSIVE EvictForward(_, _)
EvictForward(list, failed) ==
    IF failed = <<>> THEN list
    ELSE EvictForward(VecRemove(list, Head(failed)), Tail(failed))

\* for idx in failed_channels.iter().rev() { subscribers.remove(*idx); }
RECURSIVE EvictFailed(_, _)
EvictFailed(list, failed) ==
    IF failed = <<>> THEN list
    ELSE EvictFailed(VecRemove(list, failed[Len(failed)]),
                     SubSeq(failed, 1, Len(failed) - 1))

\* process_market_tick up to its first send: the tick is aggregated, and the
\* pass over the symbol's subscribers begins when there is one.
BeginTick(tick) ==
    /\ symbol_prices' = add_tick(symbol_prices, tick)
    /\ processed' = Append(processed, tick)
    /\ IF tick.symbol \in DOMAIN subscribers /\ subscribers[tick.symbol] # <<>>
       THEN /\ hubPc' = "dist"
            /\ cur' = [tick |-> tick, idx |-> 1, failed |-> <<>>]
       ELSE UNCHANGED <<hubPc, cur>>
    /\ UNCHANGED <<cmdq, subscribers, chan, resp, npub, ncmd>>
    /\ UNCHANGED <<listeners, shutdown_rx>>

\* One iteration of process_market_tick's loop: the send to the idx-th
\* subscriber completes; after the last one the failed entries are evicted.
HubSend ==
    /\ hubPc = "dist"
    /\ LET sym == cur.tick.symbol
           list == subscribers[sym]
           c == list[cur.idx]
           r == SubscriberSend(chan[c], cur.tick)
           failed == IF r.res = "closed" THEN Append(cur.failed, cur.idx)
                     ELSE cur.failed
       IN  /\ r.res # "wait"
           /\ chan' = [chan EXCEPT ![c] = r.ch]
           /\ IF cur.idx < Len(list)
              THEN /\ cur' = [cur EXCEPT !.idx = @ + 1, !.failed = failed]
                   /\ UNCHANGED <<hubPc, subscribers>>
              ELSE /\ subscribers' =
                        [subscribers EXCEPT ![sym] = EvictFailed(list, failed)]
                   /\ cur' = NoCur
                   /\ hubPc' = "select"
    /\ UNCHANGED <<data, cmdq, symbol_prices, resp, processed, npub, ncmd>>
    /\ UNCHANGED apiVars

\* A channel that starts with the last processed tick of its symbol.
NewChanReplays(sym, rx) ==
    [symbol |-> sym,
     buf |-> IF \E i \in DOMAIN processed : processed[i].symbol = sym
             THEN <<processed[CHOOSE i \in DOMAIN processed :
                                /\ processed[i].symbol = sym
                                /\ \A j \in DOMAIN processed :
                                      processed[j].symbol = sym => j <= i]>>
             ELSE <<>>,
     rx |-> rx, since |-> Len(processed),
     got |-> <<>>, nsent |-> 0, fails |-> 0, unsub |-> FALSE,
     unsub_at |-> 0, left |-> <<>>]

\* mpsc::channel::<MarketTick>(1000): a new, empty subscriber channel.
NewChan(sym, rx) ==
    [symbol |-> sym, buf |-> <<>>, rx |-> rx, since |-> Len(processed),
     got |-> <<>>, nsent |-> 0, fails |-> 0, unsub |-> FALSE,
     unsub_at |-> 0, left |-> <<>>]

\* response_tx.send(value): TRUE when the receiving half is still there.
OneshotSend(r) == resp[r].state = "waiting"

\* A Subscribe that registers the sender only when the reply was delivered.
handle_subscribe_unregistered(symbol, r) ==
    /\ IF OneshotSend(r)
       THEN /\ subscribers' = MapPush(subscribers, symbol, Len(chan) + 1)
            /\ chan' = Append(chan, NewChan(symbol, "held"))
            /\ resp' = [resp EXCEPT ![r].state = "replied",
                                    ![r].chan = Len(chan) + 1]
       ELSE /\ chan' = Append(chan, NewChan(symbol, "dropped"))
            /\ UNCHANGED <<subscribers, resp>>
    /\ UNCHANGED <<hubPc, symbol_prices>>
    /\ UNCHANGED <<listeners, shutdown_rx>>

\* handle_subscribe: the channel is created and its sender registered; when
\* response_tx.send(receiver) fails the receiver comes back in the Err and is
\* dropped.
handle_subscribe(symbol, r) ==
    /\ subscribers' = MapPush(subscribers, symbol, Len(chan) + 1)
    /\ IF OneshotSend(r)
       THEN /\ chan' = Append(chan, NewChan(symbol, "held"))
            /\ resp' = [resp EXCEPT ![r].state = "replied",
                                    ![r].chan = Len(chan) + 1]
       ELSE /\ chan' = Append(chan, NewChan(symbol, "dropped"))
            /\ UNCHANGED resp
    /\ UNCHANGED <<hubPc, symbol_prices>>
    /\ UNCHANGED <<listeners, shutdown_rx>>

\* An Unsubscribe that looks the symbol up and removes nothing.
UnsubscribeKeeps(subs, symbol) == subs

\* An Unsubscribe that empties the whole registry.
UnsubscribeClears(subs, symbol) == EmptyMap

\* self.subscribers.remove(&symbol)
UnsubscribeMap(subs, symbol) == MapRemove(subs, symbol)

\* An Unsubscribe that also discards what the removed channels still buffer.
handle_unsubscribe_discards(symbol) ==
    /\ subscribers' = UnsubscribeMap(subscribers, symbol)
    /\ chan' = [c \in DOMAIN chan |->
                  IF symbol \in DOMAIN subscribers
                     /\ c \in Range(subscribers[symbol])
                  THEN [chan[c] EXCEPT !.unsub = TRUE,
                                       !.unsub_at = Len(processed),
                                       !.left = chan[c].buf,
                                       !.buf = <<>>]
                  ELSE chan[c]]
    /\ UNCHANGED <<hubPc, symbol_prices, resp>>
    /\ UNCHANGED <<listeners, shutdown_rx>>

\* handle_unsubscribe: the symbol's senders are removed and dropped; the
\* channels keep what they buffer.
handle_unsubscribe(symbol) ==
    /\ subscribers' = UnsubscribeMap(subscribers, symbol)
    /\ chan' = [c \in DOMAIN chan |->
                  IF symbol \in DOMAIN subscribers
                     /\ c \in Range(subscribers[symbol])
                  THEN [chan[c] EXCEPT !.unsub = TRUE,
                                       !.unsub_at = Len(processed),
                                       !.left = chan[c].buf]
                  ELSE chan[c]]
    /\ UNCHANGED <<hubPc, symbol_prices, resp>>
    /\ UNCHANGED <<listeners, shutdown_rx>>

\* self.subscribers.keys().filter_map(|symbol| get_statistics(symbol)).collect()
CollectStats(subs, prices) ==
    UNION {get_statistics(prices, s) : s \in DOMAIN subs}

\* The symbols with at least one registered subscriber entry.
ActiveSymbols == {s \in DOMAIN subscribers : subscribers[s] # <<>>}

\* A GetStats that ends the event loop when its reply cannot be delivered.
handle_get_stats_fatal(r) ==
    /\ IF OneshotSend(r)
       THEN /\ resp' = [resp EXCEPT ![r].state = "replied",
                                    ![r].stats = CollectStats(subscribers, symbol_prices),
                                    ![r].at = Len(processed),
                                    ![r].active = ActiveSymbols]
            /\ UNCHANGED hubPc
       ELSE /\ hubPc' = "done"
            /\ UNCHANGED resp
    /\ UNCHANGED <<subscribers, symbol_prices, chan>>
    /\ UNCHANGED <<listeners, shutdown_rx>>

\* handle_get_stats: the statistics are collected and sent; a failed send is
\* only printed.
handle_get_stats(r) ==
    /\ IF OneshotSend(r)
       THEN resp' = [resp EXCEPT ![r].state = "replied",
                                 ![r].stats = CollectStats(subscribers, symbol_prices),
                                 ![r].at = Len(processed),
                                 ![r].active = ActiveSymbols]
       ELSE UNCHANGED resp
    /\ UNCHANGED <<hubPc, subscribers, symbol_prices, chan>>
    /\ UNCHANGED <<listeners, shutdown_rx>>

\* A send that reaches one receiver only, as an mpsc channel would.
BroadcastToOne(ls) ==
    [l \in DOMAIN ls |->
        IF ls[l].state = "listening"
           /\ \A k \in DOMAIN ls : ls[k].state = "listening" => l <= k
        THEN [ls[l] EXCEPT !.pending = @ + 1]
        ELSE ls[l]]

\* broadcast::Sender::send(()): every receiver that exists now gets the value.
Broadcast(ls) ==
    [l \in DOMAIN ls |->
        IF ls[l].state = "listening" THEN [ls[l] EXCEPT !.pending = @ + 1]
        ELSE ls[l]]

\* A Shutdown that sends the signal and stays in the loop.
handle_shutdown_continues ==
    /\ listeners' = Broadcast(listeners)
    /\ shutdown_rx' = shutdown_rx + 1
    /\ UNCHANGED <<hubPc, subscribers, symbol_prices, chan, resp>>

\* MarketCommand::Shutdown: self.shutdown_tx.send(()).ok(); break
handle_shutdown ==
    /\ listeners' = Broadcast(listeners)
    /\ shutdown_rx' = shutdown_rx + 1
    /\ hubPc' = "done"
    /\ UNCHANGED <<subscribers, symbol_prices, chan, resp>>

\* A select! that offers no branch once the inbound channel is closed and
\* empty.
ReadyUntilClosed ==
    IF ~data_tx.open /\ data = <<>> THEN {}
    ELSE (IF data # <<>> THEN {"data"} ELSE {})
         \cup (IF cmdq # <<>> THEN {"command"} ELSE {})

\* The branches of tokio::select! that are ready.  The branch of data_rx is
\* ready while a tick is buffered: once the channel is closed and empty its
\* recv() yields None, which the pattern Some(tick) refuses.
Ready ==
    (IF data # <<>> THEN {"data"} ELSE {})
    \cup (IF cmdq # <<>> THEN {"command"} ELSE {})
    \cup (IF shutdown_rx > 0 THEN {"shutdown"} ELSE {})

\* One iteration of start()'s loop: select! takes one ready branch.
HubBranch(b) ==
    /\ hubPc = "select"
    /\ b \in Ready
    /\ CASE b = "data" ->
              /\ data' = Tail(data)
              /\ BeginTick(Head(data))
         [] b = "command" ->
              /\ cmdq' = Tail(cmdq)
              /\ LET cmd == Head(cmdq)
                 IN  CASE cmd.kind = "Subscribe" -> handle_subscribe(cmd.symbol, cmd.resp)
                       [] cmd.kind = "Unsubscribe" -> handle_unsubscribe(cmd.symbol)
                       [] cmd.kind = "GetStats" -> handle_get_stats(cmd.resp)
                       [] cmd.kind = "Shutdown" -> handle_shutdown
              /\ UNCHANGED <<data, cur, processed, npub, ncmd>>
    /\ UNCHANGED <<helper, cl, data_tx, fixedVars>>

HubSelect == \E b \in {"data", "command"} : HubBranch(b)

\* The Hub value is dropped after start() returned: every channel end it
\* owns closes, and the commands still queued are dropped with their oneshot
\* senders.
HubDrop ==
    /\ hubPc = "done"
    /\ ~HelperBorrows
    /\ hubPc' = "dropped"
    /\ data' = <<>>
    /\ cmdq' = <<>>
    /\ subscribers' = EmptyMap
    /\ resp' = [r \in DOMAIN resp |->
                  IF resp[r].state = "waiting"
                     /\ \E i \in DOMAIN cmdq : cmdq[i].resp = r
                  THEN [resp[r] EXCEPT !.state = "closed"]
                  ELSE resp[r]]
    /\ UNCHANGED <<symbol_prices, cur, chan, processed, npub, ncmd>>
    /\ UNCHANGED apiVars

Next ==
    \/ \E s \in Symbols, p \in Prices : Publish(s, p)
    \/ \E s \in Symbols : SendSubscribe(s)
    \/ \E s \in Symbols : SendUnsubscribe(s)
    \/ SendGetStats
    \/ SendShutdown
    \/ \E r \in DOMAIN resp : DropResponse(r)
    \/ \E c \in DOMAIN chan : ClientRecv(c)
    \/ \E c \in DOMAIN chan : ClientDrop(c)
    \/ HubStart
    \/ HubSelect
    \/ HubSend
    \/ HubDrop

Spec == Init /\ [][Next]_vars

StatsSpec == StatsInit /\ [][Next]_vars

\* The same Hub and clients, with up to three subscribers and one tick.
PassInit ==
    /\ Constructed
    /\ NoPool
    /\ NoVolume
    /\ cl = NoClient
    /\ lim = [ticks |-> PassTicks, cmds |-> PassCmds, chans |-> PassChans,
              calls |-> 0]

PassSpec == PassInit /\ [][Next]_vars

\* ---------------------------------------------- the producers go away
\* The same Hub and clients, with producers that can go away.
CloseInit ==
    /\ Constructed
    /\ NoPool
    /\ NoVolume
    /\ cl = NoClient
    /\ lim = [ticks |-> CloseTicks, cmds |-> CloseCmds, chans |-> CloseChans,
              calls |-> 0]

\* Every sender of the inbound tick channel is dropped (the producers ended
\* and main dropped tx): the channel is closed, its buffer stays readable.
ProducersDrop ==
    /\ data_tx.open
    /\ data_tx' = [open |-> FALSE, resps |-> Len(resp)]
    /\ UNCHANGED <<hubPc, data, cmdq, subscribers, symbol_prices, cur, chan, resp,
                   processed, npub, ncmd, listeners, shutdown_rx, helper, cl,
                   fixedVars>>

CloseNext ==
    \/ Next
    \/ ProducersDrop

CloseSpec == CloseInit /\ [][CloseNext]_vars

\* ------------------------------------------- shutdown listeners, helpers
\* What the listeners and the helper callers leave alone.
hubVars == <<hubPc, data, subscribers, symbol_prices, cur, chan, processed,
             npub, cl, data_tx, fixedVars>>

\* hub.subscribe_to_shutdown(): a new broadcast receiver.  It takes &self, so
\* it is called while start() is not running; a receiver made after the
\* signal was sent does not see it.
SubscribeToShutdown(l) ==
    /\ hubPc \in {"init", "done"}
    /\ listeners[l].state = "none"
    /\ listeners' = [listeners EXCEPT ![l].state = "listening",
                                      ![l].late = (hubPc = "done")]
    /\ UNCHANGED <<hubVars, cmdq, resp, ncmd, shutdown_rx, helper>>

\* A listener's recv().await that yields the signal.
ListenerRecv(l) ==
    /\ listeners[l].pending > 0
    /\ listeners' = [listeners EXCEPT ![l].pending = @ - 1, ![l].seen = @ + 1]
    /\ UNCHANGED <<hubVars, cmdq, resp, ncmd, shutdown_rx, helper>>

\* subscribe_to_symbol or get_statistics is called: it creates its oneshot
\* and begins self.command_tx.send(..).await.  The call borrows the Hub, so
\* start() is not running.
HelperCall ==
    /\ hubPc \in {"init", "done"}
    /\ helper.pc \in {"idle", "err"}
    /\ helper.ncall < lim.calls
    /\ helper' = [helper EXCEPT !.pc = "sending", !.ncall = @ + 1]
    /\ UNCHANGED <<hubVars, cmdq, resp, ncmd, listeners, shutdown_rx>>

\* The helper's command_tx.send(..).await completes: it suspends while the
\* command channel is full (the Hub is alive, so the channel is not closed).
HelperSend(kind, sym) ==
    /\ helper.pc = "sending"
    /\ Len(cmdq) < CmdCap
    /\ kind = "Subscribe" => SubscribesSent < lim.chans
    /\ resp' = Append(resp, NewResp(IF kind = "Subscribe" THEN "sub" ELSE "stats"))
    /\ cmdq' = Append(cmdq, [kind |-> kind,
                             symbol |-> IF kind = "Subscribe" THEN sym ELSE "",
                             resp |-> Len(resp) + 1])
    /\ helper' = [helper EXCEPT !.pc = "waiting", !.resp = Len(resp) + 1]
    /\ UNCHANGED <<hubVars, ncmd, listeners, shutdown_rx>>

\* timeout(Duration::from_secs(5), oneshot_recv).await?? elapses: the helper
\* returns the error and drops the oneshot's receiving half.  (No reply can
\* arrive first: the event loop does not run while the helper borrows the Hub.)
HelperTimeout ==
    /\ helper.pc = "waiting"
    /\ resp' = [resp EXCEPT ![helper.resp].state = "dropped"]
    /\ helper' = [helper EXCEPT !.pc = "err", !.resp = 0]
    /\ UNCHANGED <<hubVars, cmdq, ncmd, listeners, shutdown_rx>>

ApiNext ==
    \/ Next
    \/ \E l \in DOMAIN listeners : SubscribeToShutdown(l)
    \/ \E l \in DOMAIN listeners : ListenerRecv(l)
    \/ HelperCall
    \/ \E s \in Symbols : HelperSend("Subscribe", s)
    \/ HelperSend("GetStats", "")
    \/ HelperTimeout

ApiSpec == ApiInit /\ [][ApiNext]_vars

\* ------------------------------------------ the client of hub_example.rs
\* What the client task leaves alone.
clFrame == <<hubPc, data, subscribers, symbol_prices, cur, processed, npub,
             listeners, shutdown_rx, helper, data_tx, fixedVars>>

\* Every sender of channel c is dropped and its buffer is empty: recv()
\* yields None.
EndOfStream(c) == ~Registered(c) /\ chan[c].buf = <<>>

\* client_command_sender.send(MarketCommand::Subscribe(..)).await for "VZW"
\* (hub_example.rs:49-53) and for "JNJ" (61-65).
ClSubscribe ==
    /\ cl.pc \in {"subscribe_vzw", "subscribe_jnj"}
    /\ hubPc # "dropped"
    /\ Len(cmdq) < CmdCap
    /\ resp' = Append(resp, NewResp("sub"))
    /\ cmdq' = Append(cmdq,
                 [kind |-> "Subscribe",
                  symbol |-> IF cl.pc = "subscribe_vzw" THEN "VZW" ELSE "JNJ",
                  resp |-> Len(resp) + 1])
    /\ cl' = [cl EXCEPT !.pc = IF cl.pc = "subscribe_vzw" THEN "await_vzw"
                               ELSE "await_jnj",
                        !.resp = Len(resp) + 1]
    /\ ncmd' = ncmd + 1
    /\ UNCHANGED <<clFrame, chan>>

\* rx.await.expect(..) (hub_example.rs:54, 67): the receiver arrives.
ClAwaitReceiver ==
    /\ cl.pc \in {"await_vzw", "await_jnj"}
    /\ resp[cl.resp].state = "replied"
    /\ cl' = IF cl.pc = "await_vzw"
             THEN [cl EXCEPT !.pc = "first", !.i = 0, !.vzw = resp[cl.resp].chan]
             ELSE [cl EXCEPT !.pc = "both", !.i = 0, !.jnj = resp[cl.resp].chan]
    /\ UNCHANGED <<clFrame, cmdq, chan, resp, ncmd>>

\* The receiver's next tick is taken.
Take(c) ==
    [chan EXCEPT ![c].got = Append(@, Head(chan[c].buf)), ![c].buf = Tail(@)]

\* One iteration of the first loop (hub_example.rs:55-59): a VZW tick is
\* received.
ClFirst ==
    /\ cl.pc = "first"
    /\ chan[cl.vzw].buf # <<>>
    /\ chan' = Take(cl.vzw)
    /\ cl' = IF cl.i + 1 = FirstLoop THEN [cl EXCEPT !.pc = "subscribe_jnj", !.i = 0]
             ELSE [cl EXCEPT !.i = @ + 1]
    /\ UNCHANGED <<clFrame, cmdq, resp, ncmd>>

\* One iteration of the select! loop over both receivers
\* (hub_example.rs:69-78).
ClBoth(c) ==
    /\ cl.pc = "both"
    /\ c \in {cl.vzw, cl.jnj}
    /\ chan[c].buf # <<>>
    /\ chan' = Take(c)
    /\ cl' = IF cl.i + 1 = BothLoop THEN [cl EXCEPT !.pc = "get_stats", !.i = 0]
             ELSE [cl EXCEPT !.i = @ + 1]
    /\ UNCHANGED <<clFrame, cmdq, resp, ncmd>>

\* client_command_sender.send(MarketCommand::GetStats(..)).await
\* (hub_example.rs:80-84).
ClGetStats ==
    /\ cl.pc = "get_stats"
    /\ hubPc # "dropped"
    /\ Len(cmdq) < CmdCap
    /\ resp' = Append(resp, NewResp("stats"))
    /\ cmdq' = Append(cmdq, [kind |-> "GetStats", symbol |-> "",
                             resp |-> Len(resp) + 1])
    /\ cl' = [cl EXCEPT !.pc = "await_stats", !.resp = Len(resp) + 1]
    /\ ncmd' = ncmd + 1
    /\ UNCHANGED <<clFrame, chan>>

\* oneshot_receiver.await.expect(..) (hub_example.rs:85).
ClAwaitStats ==
    /\ cl.pc = "await_stats"
    /\ resp[cl.resp].state = "replied"
    /\ cl' = [cl EXCEPT !.pc = "unsubscribe"]
    /\ UNCHANGED <<clFrame, cmdq, chan, resp, ncmd>>

\* client_command_sender.send(MarketCommand::Unsubscribe("VZW")).await
\* (hub_example.rs:88-91).
ClUnsubscribe ==
    /\ cl.pc = "unsubscribe"
    /\ hubPc # "dropped"
    /\ Len(cmdq) < CmdCap
    /\ cmdq' = Append(cmdq, [kind |-> "Unsubscribe", symbol |-> "VZW", resp |-> 0])
    /\ cl' = [cl EXCEPT !.pc = "verify", !.i = 0]
    /\ ncmd' = ncmd + 1
    /\ UNCHANGED <<clFrame, chan, resp>>

\* One iteration of the loop that verifies the unsubscription
\* (hub_example.rs:93-105): a VZW tick (the branch that prints ERROR), a JNJ
\* tick, or the else branch once both receivers are at their end.
ClVerify(b) ==
    /\ cl.pc = "verify"
    /\ CASE b = "vzw" ->
              /\ chan[cl.vzw].buf # <<>>
              /\ chan' = Take(cl.vzw)
              /\ cl' = [cl EXCEPT !.errors = @ + 1,
                                  !.i = IF cl.i + 1 = VerifyLoop THEN 0 ELSE @ + 1,
                                  !.pc = IF cl.i + 1 = VerifyLoop THEN "shutdown" ELSE @]
         [] b = "jnj" ->
              /\ chan[cl.jnj].buf # <<>>
              /\ chan' = Take(cl.jnj)
              /\ cl' = [cl EXCEPT !.i = IF cl.i + 1 = VerifyLoop THEN 0 ELSE @ + 1,
                                  !.pc = IF cl.i + 1 = VerifyLoop THEN "shutdown" ELSE @]
         [] b = "else" ->
              /\ EndOfStream(cl.vzw)
              /\ EndOfStream(cl.jnj)
              /\ cl' = [cl EXCEPT !.i = IF cl.i + 1 = VerifyLoop THEN 0 ELSE @ + 1,
                                  !.pc = IF cl.i + 1 = VerifyLoop THEN "shutdown" ELSE @]
              /\ UNCHANGED chan
    /\ UNCHANGED <<clFrame, cmdq, resp, ncmd>>

\* client_command_sender.send(MarketCommand::Shutdown).await
\* (hub_example.rs:107-110); the task ends and drops both receivers.
ClShutdown ==
    /\ cl.pc = "shutdown"
    /\ hubPc # "dropped"
    /\ Len(cmdq) < CmdCap
    /\ cmdq' = Append(cmdq, [kind |-> "Shutdown", symbol |-> "", resp |-> 0])
    /\ chan' = [c \in DOMAIN chan |->
                  IF c \in {cl.vzw, cl.jnj}
                  THEN [chan[c] EXCEPT !.rx = "dropped", !.buf = <<>>]
                  ELSE chan[c]]
    /\ cl' = [cl EXCEPT !.pc = "end"]
    /\ ncmd' = ncmd + 1
    /\ UNCHANGED <<clFrame, resp>>

\* The producers of the example publish as soon as they are spawned.
ScenarioNext ==
    \/ \E s \in Symbols, p \in Prices : Publish(s, p)
    \/ HubStart
    \/ HubSelect
    \/ HubSend
    \/ HubDrop
    \/ ClSubscribe
    \/ ClAwaitReceiver
    \/ ClFirst
    \/ \E c \in DOMAIN chan : ClBoth(c)
    \/ ClGetStats
    \/ ClAwaitStats
    \/ ClUnsubscribe
    \/ \E b \in {"vzw", "jnj", "else"} : ClVerify(b)
    \/ ClShutdown

ScenarioSpec == ScenarioInit /\ [][ScenarioNext]_vars

\* ------------------------------------- the pool HighThroughputProcessor
\* What the pool and its producers leave alone.
hubFrame == <<hubPc, data, cmdq, subscribers, symbol_prices, cur, chan, resp,
              processed, npub, ncmd, listeners, shutdown_rx, helper, cl, lim,
              data_tx, tickVars>>

NoWorker == [pc |-> "unspawned", tick |-> NoTick, added |-> 0]

\* test_multiple_consumers (perf_test.rs:94-104): the stream is created, the
\* task that generates the data is spawned with P producers, and
\* process_market_stream is called on a pool of N >= 1 workers.
PoolInit ==
    /\ Constructed
    /\ NoVolume
    /\ cl = NoClient
    /\ lim = [ticks |-> 0, cmds |-> 0, chans |-> 0, calls |-> 0]
    /\ poolPc = [pc |-> "spawn", i |-> 0]
    /\ tx = TRUE
    /\ \E P \in 0..MaxProducers : producers = [p \in 1..P |-> PoolTicks]
    /\ \E N \in 1..MaxWorkers : workers = [w \in 1..N |-> NoWorker]
    /\ stream = <<>>
    /\ rx_guard = 0
    /\ agg_guard = 0
    /\ aggregator = EmptyMap
    /\ sent = <<>>

\* Every sender of the stream is dropped: each producer drops its clone when
\* its task ends (0) or panics (-1), generate_high_frequency_data drops the
\* first one.
StreamClosed == ~tx /\ \A p \in DOMAIN producers : producers[p] <= 0

\* A Receiver that outlives process_market_stream.
RxKept == FALSE

\* The Receiver is dropped with the last clone of its Arc (aggregator.rs:111,
\* 114): process_market_stream has returned and no worker task is left.
RxDropped ==
    /\ poolPc.pc = "returned"
    /\ \A w \in DOMAIN workers : workers[w].pc \in {"unspawned", "done"}

\* One iteration of a producer's loop (perf_test.rs:27-34): the tick of
\* symbol SYM{i} is sent; after the last one the task ends.
Produce(p, price) ==
    /\ producers[p] > 0
    /\ ~RxDropped
    /\ Len(stream) < StreamCap
    /\ stream' = Append(stream, [symbol |-> p - 1, price |-> price])
    /\ sent' = Append(sent, [symbol |-> p - 1, price |-> price])
    /\ producers' = [producers EXCEPT ![p] = @ - 1]
    /\ UNCHANGED <<poolPc, tx, workers, rx_guard, agg_guard, aggregator>>
    /\ UNCHANGED hubFrame

\* tx_clone.send(tick).await fails once the Receiver is dropped, whether the
\* buffer has room or not, and unwrap() panics the producer's task
\* (perf_test.rs:33).
ProduceFails(p) ==
    /\ producers[p] > 0
    /\ RxDropped
    /\ producers' = [producers EXCEPT ![p] = -1]
    /\ UNCHANGED <<poolPc, tx, stream, workers, rx_guard, agg_guard,
                   aggregator, sent>>
    /\ UNCHANGED hubFrame

\* generate_high_frequency_data has awaited its producers in turn, up to the
\* last one or to the first that panicked (handle.await?), and returns
\* (perf_test.rs:39-42): its sender is dropped.
GenReturn ==
    /\ tx
    /\ \E j \in 1..(Len(producers) + 1) :
          /\ \A p \in DOMAIN producers : p < j => producers[p] = 0
          /\ j \in DOMAIN producers => producers[j] = -1
    /\ tx' = FALSE
    /\ UNCHANGED <<poolPc, producers, stream, workers, rx_guard, agg_guard,
                   aggregator, sent>>
    /\ UNCHANGED hubFrame

\* One iteration of the loop that spawns the workers (aggregator.rs:113-142).
PoolSpawn ==
    /\ poolPc.pc = "spawn"
    /\ poolPc.i < Len(workers)
    /\ workers' = [workers EXCEPT ![poolPc.i + 1].pc = "lock_rx"]
    /\ poolPc' = IF poolPc.i + 1 = Len(workers) THEN [pc |-> "join", i |-> 0]
                 ELSE [poolPc EXCEPT !.i = @ + 1]
    /\ UNCHANGED <<tx, producers, stream, rx_guard, agg_guard, aggregator, sent>>
    /\ UNCHANGED hubFrame

\* A lock() on a mutex nobody holds would be granted to every caller.
CanLockAlways(guard) == TRUE

\* tokio::sync::Mutex::lock().await is granted while nobody holds the mutex.
CanLock(guard) == guard = 0

\* cloned_rx.lock().await (aggregator.rs:121)
WLockRx(w) ==
    /\ workers[w].pc = "lock_rx"
    /\ CanLock(rx_guard)
    /\ rx_guard' = w
    /\ workers' = [workers EXCEPT ![w].pc = "recv"]
    /\ UNCHANGED <<poolPc, tx, producers, stream, agg_guard, aggregator, sent>>
    /\ UNCHANGED hubFrame

\* A recv() that yields the next tick and leaves it in the buffer.
StreamRecvPeeks(buf, closed) ==
    IF buf # <<>> THEN [res |-> "some", tick |-> Head(buf), rest |-> buf]
    ELSE IF closed THEN [res |-> "none", tick |-> NoTick, rest |-> buf]
    ELSE [res |-> "pending", tick |-> NoTick, rest |-> buf]

\* mpsc::Receiver::recv().await: the oldest buffered tick, None once the
\* buffer is empty and every sender is dropped, pending otherwise.
StreamRecv(buf, closed) ==
    IF buf # <<>> THEN [res |-> "some", tick |-> Head(buf), rest |-> Tail(buf)]
    ELSE IF closed THEN [res |-> "none", tick |-> NoTick, rest |-> buf]
    ELSE [res |-> "pending", tick |-> NoTick, rest |-> buf]

\* rx_guard.recv().await completes and rx_guard goes out of scope
\* (aggregator.rs:122-123); on None the worker breaks (133-136).
WRecv(w) ==
    /\ workers[w].pc = "recv"
    /\ LET r == StreamRecv(stream, StreamClosed)
       IN  /\ r.res # "pending"
           /\ stream' = r.rest
           /\ workers' = [workers EXCEPT
                            ![w].pc = IF r.res = "some" THEN "lock_agg" ELSE "done",
                            ![w].tick = r.tick]
    /\ rx_guard' = IF rx_guard = w THEN 0 ELSE rx_guard
    /\ UNCHANGED <<poolPc, tx, producers, agg_guard, aggregator, sent>>
    /\ UNCHANGED hubFrame

\* aggregator.lock().await (aggregator.rs:129)
WLockAgg(w) ==
    /\ workers[w].pc = "lock_agg"
    /\ CanLock(agg_guard)
    /\ agg_guard' = w
    /\ workers' = [workers EXCEPT ![w].pc = "add"]
    /\ UNCHANGED <<poolPc, tx, producers, stream, rx_guard, aggregator, sent>>
    /\ UNCHANGED hubFrame

\* agg.add_tick(tick), and agg goes out of scope (aggregator.rs:130-132).
WAdd(w) ==
    /\ workers[w].pc = "add"
    /\ aggregator' = add_tick(aggregator, workers[w].tick)
    /\ agg_guard' = IF agg_guard = w THEN 0 ELSE agg_guard
    /\ workers' = [workers EXCEPT ![w].pc = "lock_rx", ![w].tick = NoTick,
                                  ![w].added = @ + 1]
    /\ UNCHANGED <<poolPc, tx, producers, stream, rx_guard, sent>>
    /\ UNCHANGED hubFrame

\* A join that does not wait for the task.
JoinDetached(ws, j) == TRUE

\* handle.await completes once the worker's task has ended.
JoinReady(ws, j) == ws[j].pc = "done"

\* One iteration of the loop that awaits the workers (aggregator.rs:145-147);
\* after the last one process_market_stream returns Ok(()).
PoolJoin ==
    /\ poolPc.pc = "join"
    /\ JoinReady(workers, poolPc.i + 1)
    /\ poolPc' = IF poolPc.i + 1 = Len(workers) THEN [pc |-> "returned", i |-> 0]
                 ELSE [poolPc EXCEPT !.i = @ + 1]
    /\ UNCHANGED <<tx, producers, stream, workers, rx_guard, agg_guard,
                   aggregator, sent>>
    /\ UNCHANGED hubFrame

PoolNext ==
    \/ \E p \in DOMAIN producers, price \in Prices : Produce(p, price)
    \/ GenReturn
    \/ PoolSpawn
    \/ \E w \in DOMAIN workers : WLockRx(w)
    \/ \E w \in DOMAIN workers : WRecv(w)
    \/ \E w \in DOMAIN workers : WLockAgg(w)
    \/ \E w \in DOMAIN workers : WAdd(w)
    \/ PoolJoin

\* The tokio scheduler runs every task that can run, and a tokio Mutex
\* grants the lock to its waiters in turn.
PoolFair ==
    /\ WF_vars(\E p \in DOMAIN producers, price \in Prices : Produce(p, price))
    /\ WF_vars(GenReturn)
    /\ WF_vars(PoolSpawn)
    /\ WF_vars(PoolJoin)
    /\ \A w \in 1..MaxWorkers :
          /\ SF_vars(w \in DOMAIN workers /\ WLockRx(w))
          /\ WF_vars(w \in DOMAIN workers /\ WRecv(w))
          /\ SF_vars(w \in DOMAIN workers /\ WLockAgg(w))
          /\ WF_vars(w \in DOMAIN workers /\ WAdd(w))

PoolSpec == PoolInit /\ [][PoolNext]_vars

\* process_market_stream with consumer_count = 0 (aggregator.rs:113, 145,
\* 149): neither loop has an iteration, Ok(()) is returned, and the Receiver
\* is dropped with what its buffer holds.
PoolNoWorker ==
    /\ poolPc.pc = "spawn"
    /\ Len(workers) = 0
    /\ poolPc' = [pc |-> "returned", i |-> 0]
    /\ stream' = <<>>
    /\ UNCHANGED <<tx, producers, workers, rx_guard, agg_guard, aggregator, sent>>
    /\ UNCHANGED hubFrame

\* HighThroughputProcessor::new takes any consumer_count, 0 included.
AnyPoolInit ==
    /\ Constructed
    /\ NoVolume
    /\ cl = NoClient
    /\ lim = [ticks |-> 0, cmds |-> 0, chans |-> 0, calls |-> 0]
    /\ poolPc = [pc |-> "spawn", i |-> 0]
    /\ tx = TRUE
    /\ \E P \in 0..MaxProducers : producers = [p \in 1..P |-> PoolTicks]
    /\ \E N \in 0..FewWorkers : workers = [w \in 1..N |-> NoWorker]
    /\ stream = <<>>
    /\ rx_guard = 0
    /\ agg_guard = 0
    /\ aggregator = EmptyMap
    /\ sent = <<>>

AnyPoolNext ==
    \/ PoolNext
    \/ PoolNoWorker
    \/ \E p \in DOMAIN producers : ProduceFails(p)

AnyPoolSpec == AnyPoolInit /\ [][AnyPoolNext]_vars

\* The pool with producers that all send the same price.
PoolLiveNext ==
    \/ \E p \in DOMAIN producers : Produce(p, MaxPrice)
    \/ GenReturn
    \/ PoolSpawn
    \/ \E w \in DOMAIN workers : WLockRx(w)
    \/ \E w \in DOMAIN workers : WRecv(w)
    \/ \E w \in DOMAIN workers : WLockAgg(w)
    \/ \E w \in DOMAIN workers : WAdd(w)
    \/ PoolJoin

PoolLiveSpec == PoolInit /\ [][PoolLiveNext]_vars /\ PoolFair

\* ------------------------------------------------------------ MarketTick
\* A threshold that counts the volume 1000 itself as significant.
is_significant_volume_inclusive(v) == v >= SignificantVolume

\* MarketTick::is_significant_volume: self.volume > 1000
is_significant_volume(v) == v > SignificantVolume

\* MarketTick::new with any volume up to MaxVolume; nothing else runs.
TickInit ==
    /\ Constructed
    /\ NoPool
    /\ cl = NoClient
    /\ lim = [ticks |-> 0, cmds |-> 0, chans |-> 0, calls |-> 0]
    /\ volume \in 0..MaxVolume
    /\ significant = <<>>

\* tick.is_significant_volume() is called.
CallIsSignificantVolume ==
    /\ significant = <<>>
    /\ significant' = <<is_significant_volume(volume)>>
    /\ UNCHANGED <<hubPc, data, cmdq, subscribers, symbol_prices, cur, chan, resp,
                   processed, npub, ncmd, listeners, shutdown_rx, helper, cl, lim,
                   data_tx, poolVars, volume>>

TickNext == CallIsSignificantVolume

TickSpec == TickInit /\ [][TickNext]_vars

\* test_single_consumer's loop (perf_test.rs:62-67) over the ticks s: one
\* consumer adds each tick it receives, in the order of the stream.
RECURSIVE SingleConsumer(_, _)
SingleConsumer(prices, s) ==
    IF s = <<>> THEN prices
    ELSE SingleConsumer(add_tick(prices, Head(s)), Tail(s))

\* ----------------------------------------------------------------- claims
\* The place of channel c in its symbol's subscriber list.
Position(c) ==
    CHOOSE i \in DOMAIN subscribers[chan[c].symbol] :
        subscribers[chan[c].symbol][i] = c

\* The ticks of s among the first n the Hub processed.
TicksOf(s, from, to) ==
    SelectSeq(SubSeq(processed, from, to), LAMBDA t : t.symbol = s)

\* The ticks of c's symbol the Hub processed since c was subscribed.
Expected(c) == TicksOf(chan[c].symbol, chan[c].since + 1, Len(processed))

\* Every tick put on channel c: those its client received, then those buffered.
Delivered(c) == chan[c].got \o chan[c].buf

\* The running pass has not reached c yet.
AwaitsCurrent(c) ==
    /\ hubPc = "dist"
    /\ cur.tick.symbol = chan[c].symbol
    /\ Position(c) >= cur.idx

\* A subscriber whose receiver is held and whose symbol was not unsubscribed,
\* of a Hub that was not dropped.
LiveSubscriber(c) ==
    /\ chan[c].rx = "held"
    /\ ~chan[c].unsub
    /\ hubPc # "dropped"

Front(s) == SubSeq(s, 1, Len(s) - 1)

HubSuspended ==
    /\ hubPc = "dist"
    /\ SubscriberSend(chan[subscribers[cur.tick.symbol][cur.idx]], cur.tick).res
         = "wait"

\* C2: the Hub is never suspended on one subscriber's full channel while
\* other subscribers still wait for the tick, or while ticks or commands are
\* queued.
C2_NeverBlocksOnSubscriber ==
    ~(/\ HubSuspended
      /\ \/ cur.idx < Len(subscribers[cur.tick.symbol])
         \/ data # <<>>
         \/ cmdq # <<>>)

\* C3: a GetStats reply holds no symbol that had no subscriber entry when
\* the Hub handled the command.
C3_StatsOnlyActive ==
    \A r \in DOMAIN resp :
        (resp[r].kind = "stats" /\ resp[r].state = "replied") =>
            \A st \in resp[r].stats : st.symbol \in resp[r].active

\* C4: once the Hub processed Unsubscribe(sym), no tick is put on a channel
\* that was subscribed to sym, and the Hub holds no sender of it.
C4_NoDeliveryAfterUnsubscribe ==
    [][\A c \in DOMAIN chan :
          chan[c].unsub => (chan'[c].nsent = chan[c].nsent /\ ~Registered(c))]_vars

\* C4 witness: a tick of the symbol was processed after the Unsubscribe, and
\* the channel, which got an earlier tick, did not get it.
C4_Witness ==
    \E c \in DOMAIN chan :
        /\ chan[c].unsub
        /\ chan[c].rx = "held"
        /\ chan[c].nsent = 1
        /\ Len(Expected(c)) = 2

\* C6: the Hub is never suspended on a subscriber while a Shutdown command
\* is queued.
C6_ShutdownNotHeldUp ==
    ~(HubSuspended /\ \E i \in DOMAIN cmdq : cmdq[i].kind = "Shutdown")

\* C10: a send to a dropped receiver fails at most once per entry; the
\* failed entry is marked in the running pass and is gone from the registry
\* when the pass ends.
C10_OneFailureThenEvicted ==
    \A c \in DOMAIN chan :
        /\ chan[c].fails <= 1
        /\ (chan[c].fails = 1 /\ Registered(c)) =>
              /\ hubPc = "dist"
              /\ cur.tick.symbol = chan[c].symbol
              /\ \E i \in DOMAIN cur.failed : cur.failed[i] = Position(c)

\* C10 witness: the first send to a dropped receiver failed, the entry was
\* evicted, and a later tick of the symbol was processed without an attempt.
C10_Witness ==
    \E c \in DOMAIN chan :
        /\ chan[c].fails = 1
        /\ chan[c].nsent = 0
        /\ ~Registered(c)
        /\ hubPc = "select"
        /\ Len(Expected(c)) = 2

\* The prices of symbol s among the first n ticks the Hub processed.
PricesOf(s, n) ==
    LET ts == TicksOf(s, 1, n) IN [i \in DOMAIN ts |-> ts[i].price]

Abs(x) == IF x < 0 THEN -x ELSE x

\* C9: a GetStats reply holds, for every subscribed symbol with K >= 1 ticks
\* processed since the Hub started, one entry with count = K, the least and
\* the greatest of the K prices, and the mean of the K prices to within half
\* a unit of the quotient's last digit.
C9_StatsOfAllTicks ==
    \A r \in DOMAIN resp :
        (resp[r].kind = "stats" /\ resp[r].state = "replied") =>
            /\ \A s \in resp[r].active :
                  PricesOf(s, resp[r].at) # <<>> =>
                      Cardinality({st \in resp[r].stats : st.symbol = s}) = 1
            /\ \A st \in resp[r].stats :
                  LET ps == PricesOf(st.symbol, resp[r].at)
                      K == Len(ps)
                  IN  /\ K >= 1
                      /\ st.count = K
                      /\ \A i \in 1..K : st.min_price <= ps[i] /\ ps[i] <= st.max_price
                      /\ \E i \in 1..K : st.min_price = ps[i]
                      /\ \E i \in 1..K : st.max_price = ps[i]
                      /\ 2 * Abs(st.avg_price * K - SumSeq(ps) * Pow10(DivDigits)) <= K

\* C9 witness: a reply for a subscribed symbol with three ticks, one of them
\* processed before the symbol had a subscriber, whose mean is not exact.
C9_Witness ==
    \E r \in DOMAIN resp :
        /\ resp[r].kind = "stats"
        /\ resp[r].state = "replied"
        /\ \E st \in resp[r].stats :
              /\ st.symbol \in resp[r].active
              /\ st.count = 3
              /\ st.min_price < st.max_price
              /\ st.avg_price * 3 # SumSeq(PricesOf(st.symbol, resp[r].at)) * Pow10(DivDigits)
              /\ \E c \in DOMAIN chan :
                    chan[c].symbol = st.symbol /\ chan[c].since >= 1

C8_HelperNeverStuck ==
    ~(/\ helper.pc = "sending"
      /\ Len(cmdq) >= CmdCap
      /\ hubPc \in {"init", "done"})

\* C5: in the example client, after the Unsubscribe command for VZW was
\* sent, no VZW tick arrives on the VZW receiver (the branch that prints
\* ERROR is never taken).
C5_NoVzwAfterUnsubscribeSent == cl.errors = 0

\* The ticks the pool's aggregator holds, over all symbols.
TotalCount(prices) ==
    LET RECURSIVE Sum(_)
        Sum(S) == IF S = {} THEN 0
                  ELSE LET x == CHOOSE y \in S : TRUE
                       IN  Len(prices[x]) + Sum(S \ {x})
    IN  Sum(DOMAIN prices)

\* The workers that hold a tick they received and have not added yet.
InHand == {w \in DOMAIN workers : workers[w].pc \in {"lock_agg", "add"}}

\* C11: every tick sent on the stream is in the buffer, in one worker's hand
\* or in the aggregator, once; when process_market_stream has returned the
\* aggregator holds exactly the M = P * PoolTicks ticks sent.
C11_EveryTickAggregatedOnce ==
    /\ Len(sent) = TotalCount(aggregator) + Len(stream) + Cardinality(InHand)
    /\ poolPc.pc = "returned" =>
          /\ TotalCount(aggregator) = Len(sent)
          /\ Len(sent) = Len(producers) * PoolTicks

\* C11 witness: the pool returned after two workers shared the ticks of two
\* producers.
C11_Witness ==
    /\ poolPc.pc = "returned"
    /\ Len(producers) = 2
    /\ TotalCount(aggregator) = 2 * PoolTicks
    /\ \E v, w \in DOMAIN workers :
          v # w /\ workers[v].added > 0 /\ workers[w].added > 0

\* The event loop of start() is running.
Running == hubPc \in {"select", "dist"}

\* This step is the event loop taking a command of the kind off the channel.
Takes(kind) ==
    /\ hubPc = "select"
    /\ cmdq # <<>>
    /\ Head(cmdq).kind = kind
    /\ cmdq' = Tail(cmdq)

C13_ClosedInboundKeepsServing ==
    /\ [][/\ (data_tx.open /\ ~data_tx'.open) => hubPc' = hubPc
          /\ ~data_tx.open =>
                /\ (Running /\ ~Running') => Takes("Shutdown")
                /\ data = <<>> => (data' = <<>> /\ processed' = processed)]_vars
    /\ []((~data_tx.open /\ hubPc = "select" /\ cmdq # <<>>) =>
             ENABLED HubBranch("command"))

\* C13 witness: after the channel was closed and emptied, a Subscribe and a
\* GetStats that were sent afterwards are answered, and the Hub is Running.
C13_Witness ==
    /\ ~data_tx.open
    /\ data = <<>>
    /\ Running
    /\ \E q, r \in DOMAIN resp :
          /\ q > data_tx.resps /\ resp[q].kind = "sub" /\ resp[q].state = "replied"
          /\ r > data_tx.resps /\ resp[r].kind = "stats" /\ resp[r].state = "replied"

\* The receiver of channel c never reached a client: the response channel of
\* its Subscribe was dropped before the Hub replied.
Orphan(c) == \A r \in DOMAIN resp : resp[r].chan # c

\* The subscriber entries of symbol s.
EntriesOf(subs, s) == IF s \in DOMAIN subs THEN subs[s] ELSE <<>>

\* C14: a Subscribe whose response channel was dropped leaves the Hub at its
\* select! with the new entry appended to the symbol's list; nothing is ever
\* put on that entry's channel, at most one send to it fails, and it stays
\* registered no longer than the pass of the first tick of its symbol.
C14_DroppedResponseEntryEvicted ==
    /\ [][(Takes("Subscribe") /\ ~OneshotSend(Head(cmdq).resp)) =>
            /\ hubPc' = "select"
            /\ resp' = resp
            /\ EntriesOf(subscribers', Head(cmdq).symbol) =
                  Append(EntriesOf(subscribers, Head(cmdq).symbol), Len(chan) + 1)
            /\ Len(chan') = Len(chan) + 1]_vars
    /\ [](\A c \in DOMAIN chan :
             Orphan(c) =>
                /\ chan[c].nsent = 0
                /\ chan[c].fails <= 1
                /\ Registered(c) =>
                      \/ Expected(c) = <<>>
                      \/ /\ hubPc = "dist"
                         /\ cur.tick.symbol = chan[c].symbol
                         /\ Len(Expected(c)) = 1)

\* C14 witness: such an entry was evicted by the first tick of its symbol
\* and the Hub, still Running, has processed a second one.
C14_Witness ==
    /\ Running
    /\ \E c \in DOMAIN chan :
          /\ Orphan(c)
          /\ ~chan[c].unsub
          /\ chan[c].fails = 1
          /\ ~Registered(c)
          /\ Len(Expected(c)) = 2

HoldRx == {w \in DOMAIN workers : workers[w].pc = "recv"}
HoldAgg == {w \in DOMAIN workers : workers[w].pc = "add"}

\* C16: at most one worker holds the lock of the stream and at most one
\* holds the lock of the aggregator, each lock records its one holder, no
\* worker holds both, and a worker that holds the lock of the aggregator
\* gives it up in the step that adds its one tick.
C16_GatesExclusiveAndDisjoint ==
    /\ [](/\ Cardinality(HoldRx) <= 1
          /\ Cardinality(HoldAgg) <= 1
          /\ HoldRx \cap HoldAgg = {}
          /\ \A w \in DOMAIN workers :
                /\ rx_guard = w <=> w \in HoldRx
                /\ agg_guard = w <=> w \in HoldAgg
                /\ ~(rx_guard = w /\ agg_guard = w))
    /\ [][\A w \in DOMAIN workers :
            (agg_guard = w /\ workers'[w] # workers[w]) =>
               /\ agg_guard' = 0
               /\ workers'[w].added = workers[w].added + 1
               /\ TotalCount(aggregator') = TotalCount(aggregator) + 1]_vars

\* C16 witness: one worker holds the lock of the stream, with a tick to
\* receive, while another holds the lock of the aggregator.
C16_Witness ==
    /\ rx_guard # 0
    /\ agg_guard # 0
    /\ rx_guard # agg_guard
    /\ stream # <<>>

\* Every worker's task has ended.
AllDone == \A w \in DOMAIN workers : workers[w].pc = "done"

\* C17: process_market_stream has returned only when every worker has ended
\* (none holds a lock or a tick), a worker ends only when the stream is
\* closed and empty, and once the stream is closed and empty every worker
\* ends and process_market_stream returns.
C17_WorkersEndThenPoolReturns ==
    /\ [](poolPc.pc = "returned" =>
             /\ AllDone
             /\ rx_guard = 0 /\ agg_guard = 0
             /\ InHand = {})
    /\ []((\E w \in DOMAIN workers : workers[w].pc = "done") =>
             (StreamClosed /\ stream = <<>>))
    /\ ((StreamClosed /\ stream = <<>>) ~> (AllDone /\ poolPc.pc = "returned"))

\* C17 witness: three workers have ended, the last of them after it added a
\* tick, and process_market_stream has returned.
C17_Witness ==
    /\ poolPc.pc = "returned"
    /\ Len(workers) = MaxWorkers
    /\ AllDone
    /\ workers[Len(workers)].added > 0
    /\ sent # <<>>

\* This step is the event loop taking a tick off the inbound channel.
TakesTick ==
    /\ hubPc = "select"
    /\ data # <<>>
    /\ data' = Tail(data)
    /\ Len(processed') = Len(processed) + 1

\* s is a prefix of t.
IsPrefix(s, t) == Len(s) <= Len(t) /\ SubSeq(t, 1, Len(s)) = s

\* C18: the step that takes a tick whose symbol has no subscriber entry
\* appends its price to the symbol's history, puts it on no channel and
\* leaves the Hub at its select!; and what was ever put on a channel is a
\* prefix of the ticks of its symbol processed after its Subscribe.
C18_NoSubscriberNoReplay ==
    /\ [][(TakesTick /\ EntriesOf(subscribers, Head(data).symbol) = <<>>) =>
            /\ EntriesOf(symbol_prices', Head(data).symbol) =
                  Append(EntriesOf(symbol_prices, Head(data).symbol),
                         Head(data).price)
            /\ chan' = chan
            /\ hubPc' = "select"]_vars
    /\ [](\A c \in DOMAIN chan :
             /\ IsPrefix(Delivered(c), Expected(c))
             /\ chan[c].nsent <= Len(Expected(c)))

\* C18 witness: the first tick was processed when its symbol had no
\* subscriber; a subscriber registered later has received the second tick of
\* the symbol and nothing else.
C18_Witness ==
    \E c \in DOMAIN chan :
        /\ processed # <<>>
        /\ processed[1].symbol = chan[c].symbol
        /\ \A d \in DOMAIN chan :
              chan[d].symbol = chan[c].symbol => chan[d].since >= 1
        /\ LiveSubscriber(c)
        /\ Len(symbol_prices[chan[c].symbol]) = 2
        /\ chan[c].got = <<processed[2]>>
        /\ chan[c].buf = <<>>
        /\ processed[1] # processed[2]

\* C19: is_significant_volume returns true for the volumes from 1001 up and
\* false for the volumes up to 1000; so true for 1001, false for 999 and
\* for 1000.
C19_SignificantAbove1000 ==
    significant # <<>> =>
        /\ significant \in {<<TRUE>>, <<FALSE>>}
        /\ volume \in 1001..MaxVolume => significant = <<TRUE>>
        /\ volume \in 0..1000 => significant = <<FALSE>>
        /\ volume = 1001 => significant = <<TRUE>>
        /\ volume \in {999, 1000} => significant = <<FALSE>>

\* C19 witness: the call returned false for the volume 1000.
C19_Witness ==
    /\ volume = 1000
    /\ significant = <<FALSE>>

\* This step is the last send of a distribution pass, with its eviction.
EndsPass == hubPc = "dist" /\ hubPc' = "select"

\* The entries of the running pass whose send failed, the one of this step
\* included.
FailedInPass ==
    LET list == subscribers[cur.tick.symbol]
    IN  {list[cur.failed[i]] : i \in DOMAIN cur.failed}
        \cup {c \in {list[cur.idx]} : chan'[c].fails > chan[c].fails}

\* C20: the step that ends a pass leaves the symbol's list as it was before
\* the pass without the entries whose send failed, the others in their
\* order, and leaves the lists of the other symbols as they were; within a
\* pass the list does not change.
C20_PassKeepsSucceededInOrder ==
    [][/\ EndsPass =>
            /\ subscribers'[cur.tick.symbol] =
                  SelectSeq(subscribers[cur.tick.symbol],
                            LAMBDA c : c \notin FailedInPass)
            /\ \A s \in DOMAIN subscribers \ {cur.tick.symbol} :
                  subscribers'[s] = subscribers[s]
            /\ DOMAIN subscribers' = DOMAIN subscribers
       /\ (hubPc = "dist" /\ hubPc' = "dist") => subscribers' = subscribers]_vars

\* C20 witness: a pass over three entries has ended; the send to the second
\* failed, the first and the third got the tick and are kept in their order.
C20_Witness ==
    /\ hubPc = "select"
    /\ \E s \in DOMAIN subscribers :
          /\ subscribers[s] = <<1, 3>>
          /\ chan[2].symbol = s
          /\ chan[2].fails = 1
          /\ chan[1].nsent = 1
          /\ chan[3].nsent = 1

\* C21: the step that takes a tick of symbol S, a step of the pass over S
\* (its eviction included) and the step that handles Unsubscribe(S) leave
\* the entries of every other symbol and the channels of every other symbol
\* as they were; and a live subscriber stays registered and is sent every
\* tick of its symbol whatever happened to the other symbol.
C21_OtherSymbolsUntouched ==
    /\ [][/\ TakesTick =>
               \A s \in Symbols \ {Head(data).symbol} :
                  EntriesOf(subscribers', s) = EntriesOf(subscribers, s)
          /\ hubPc = "dist" =>
               /\ \A s \in Symbols \ {cur.tick.symbol} :
                     EntriesOf(subscribers', s) = EntriesOf(subscribers, s)
               /\ \A c \in DOMAIN chan :
                     chan[c].symbol # cur.tick.symbol => chan'[c].nsent = chan[c].nsent
          /\ Takes("Unsubscribe") =>
               /\ \A s \in Symbols \ {Head(cmdq).symbol} :
                     EntriesOf(subscribers', s) = EntriesOf(subscribers, s)
               /\ \A c \in DOMAIN chan :
                     chan[c].symbol # Head(cmdq).symbol => chan'[c] = chan[c]]_vars
    /\ [](\A c, e \in DOMAIN chan :
             (chan[c].symbol # chan[e].symbol /\ ~Registered(c) /\ LiveSubscriber(e)) =>
                /\ Registered(e)
                /\ Delivered(e) =
                     IF AwaitsCurrent(e) THEN Front(Expected(e)) ELSE Expected(e))

\* C21 witness: after the Hub processed the Unsubscribe of one symbol, a tick
\* of the other symbol was processed and has arrived on that symbol's
\* receiver.
C21_Witness ==
    \E c, e \in DOMAIN chan :
        /\ chan[c].unsub
        /\ chan[c].nsent > 0
        /\ chan[e].symbol # chan[c].symbol
        /\ LiveSubscriber(e)
        /\ Len(processed) > chan[c].unsub_at
        /\ processed[Len(processed)].symbol = chan[e].symbol
        /\ chan[e].got # <<>>
        /\ chan[e].got = Expected(e)

\* C22: the Aggregator's histories change only in the step that takes a
\* tick, which appends the tick's price at the end of its symbol's history
\* and leaves every other history as it was; so the histories are at every
\* moment the prices of the processed ticks, symbol by symbol, in order.
C22_AddTickAppendsOnly ==
    /\ [][/\ TakesTick =>
               /\ EntriesOf(symbol_prices', Head(data).symbol) =
                     Append(EntriesOf(symbol_prices, Head(data).symbol),
                            Head(data).price)
               /\ \A s \in Symbols \ {Head(data).symbol} :
                     EntriesOf(symbol_prices', s) = EntriesOf(symbol_prices, s)
          /\ ~TakesTick => symbol_prices' = symbol_prices]_vars
    /\ [](\A s \in Symbols :
             EntriesOf(symbol_prices, s) = PricesOf(s, Len(processed)))

\* C22 witness: one symbol's history holds two different prices and the
\* other's one, after a Subscribe, a GetStats reply and an eviction.
C22_Witness ==
    /\ \E s, t \in Symbols :
          /\ s # t
          /\ Len(EntriesOf(symbol_prices, s)) = 2
          /\ symbol_prices[s][1] # symbol_prices[s][2]
          /\ Len(EntriesOf(symbol_prices, t)) = 1
    /\ \E r \in DOMAIN resp : resp[r].kind = "stats" /\ resp[r].state = "replied"
    /\ \E c \in DOMAIN chan : chan[c].fails = 1 /\ ~Registered(c)

\* The Hub handled the command of response channel r after its caller had
\* dropped the channel.
HandledDropped(r) ==
    /\ resp[r].state = "dropped"
    /\ \A i \in DOMAIN cmdq : cmdq[i].resp # r
    /\ hubPc # "init"

\* C23: the step that handles a Subscribe or a GetStats whose response
\* channel was dropped leaves the Hub at its select!, the Aggregator and the
\* response channels as they were; for a GetStats also the registry and
\* the subscriber channels; and at its select! the Hub can take whatever
\* tick or command comes next.
C23_DroppedResponseSwallowed ==
    /\ [][/\ (Takes("GetStats") /\ ~OneshotSend(Head(cmdq).resp)) =>
               /\ hubPc' = "select"
               /\ subscribers' = subscribers
               /\ symbol_prices' = symbol_prices
               /\ chan' = chan
               /\ resp' = resp
          /\ (Takes("Subscribe") /\ ~OneshotSend(Head(cmdq).resp)) =>
               /\ hubPc' = "select"
               /\ symbol_prices' = symbol_prices
               /\ resp' = resp]_vars
    /\ []((hubPc = "select" /\ \E r \in DOMAIN resp : HandledDropped(r)) =>
             /\ cmdq # <<>> => ENABLED HubBranch("command")
             /\ data # <<>> => ENABLED HubBranch("data"))

\* C23 witness: a request helper's GetStats timed out; the Hub handled the
\* command afterwards, then processed a tick and answered a later GetStats.
C23_Witness ==
    /\ Running
    /\ Len(resp) = 2
    /\ helper.ncall = 1
    /\ \E r, q \in DOMAIN resp :
          /\ r < q
          /\ resp[r].kind = "stats"
          /\ HandledDropped(r)
          /\ helper.pc = "err"
          /\ resp[q].kind = "stats"
          /\ resp[q].state = "replied"
          /\ resp[q].at = 1

\* What recv() on the receiver of channel c does now: "some", "none" or
\* "pending".
RecvNow(c) == StreamRecv(chan[c].buf, ~Registered(c)).res

\* The last n entries of s.
Last(s, n) == SubSeq(s, Len(s) - n + 1, Len(s))

BehindShutdown(q, pc, j) ==
    \/ pc = "done"
    \/ \E i \in 1..(j - 1) : q[i].kind = "Shutdown"

Count(s, x) == Cardinality({i \in DOMAIN s : s[i] = x})

\* The histories p and q hold the same symbols and, for each symbol, the
\* same prices the same number of times.
SameMultisets(p, q) ==
    /\ DOMAIN p = DOMAIN q
    /\ \A k \in DOMAIN p :
          /\ Len(p[k]) = Len(q[k])
          /\ \A x \in Range(p[k]) \cup Range(q[k]) : Count(p[k], x) = Count(q[k], x)

\* C26: when process_market_stream has returned, the pool's Aggregator holds
\* for each symbol the same prices, each as many times, as a single consumer
\* of the same stream; hence the same count, least and greatest price.
C26_PoolEqualsSingleConsumer ==
    poolPc.pc = "returned" =>
        LET single == SingleConsumer(EmptyMap, sent)
        IN  /\ SameMultisets(aggregator, single)
            /\ \A k \in DOMAIN single :
                  LET a == get_statistics(aggregator, k)
                      b == get_statistics(single, k)
                  IN  /\ {st.count : st \in a} = {st.count : st \in b}
                      /\ {st.min_price : st \in a} = {st.min_price : st \in b}
                      /\ {st.max_price : st \in a} = {st.max_price : st \in b}

\* C26 witness: the pool has returned with a symbol's two prices in the
\* other order than the single consumer's.
C26_Witness ==
    /\ poolPc.pc = "returned"
    /\ Len(workers) >= 2
    /\ \E k \in DOMAIN aggregator :
          /\ Len(aggregator[k]) = 2
          /\ aggregator[k] # SingleConsumer(EmptyMap, sent)[k]

\* C27: a pool of no worker never has one and never leaves its Aggregator
\* non-empty; process_market_stream can return from its first step, and
\* that step is the return; once it has returned the stream is gone, no
\* send is accepted any more, and a producer with a tick left can only fail.
C27_NoWorkerPool ==
    /\ [](Len(workers) = 0 =>
            /\ aggregator = EmptyMap
            /\ poolPc.pc \in {"spawn", "returned"}
            /\ poolPc.pc = "spawn" => ENABLED PoolNoWorker
            /\ poolPc.pc = "returned" =>
                  /\ RxDropped
                  /\ stream = <<>>
                  /\ \A p \in DOMAIN producers :
                        producers[p] > 0 =>
                           /\ ENABLED ProduceFails(p)
                           /\ \A price \in Prices : ~ENABLED Produce(p, price))
    /\ [][Len(workers) = 0 =>
             /\ workers' = workers
             /\ poolPc' # poolPc => poolPc.pc = "spawn" /\ poolPc'.pc = "returned"
             /\ poolPc.pc = "returned" =>
                   /\ sent' = sent
                   /\ \A p \in DOMAIN producers :
                         producers'[p] # producers[p] => producers'[p] = -1]_vars

\* C27 witness: the pool of no worker has returned after a producer's send
\* went through, and another send has failed since.
C27_Witness ==
    /\ Len(workers) = 0
    /\ poolPc.pc = "returned"
    /\ aggregator = EmptyMap
    /\ sent # <<>>
    /\ \E p \in DOMAIN producers : producers[p] = -1

====
